---- MODULE Spec2Model ----
(***************************************************************************)
(* Model of salt/modules/dracr.py: the racadm command wrapper.             *)
(*                                                                         *)
(* The module keeps no state between calls.  The state of the model is     *)
(* the last call made on the module: the operation and its arguments       *)
(* (call), the external invocations it issued, each with the exit code     *)
(* and standard output the tool answered (cmds), and what the operation    *)
(* returned to its caller (result).  One action per exposed operation;     *)
(* the tool's answers are the inputs of the action.  A call starts from    *)
(* the idle state and Return hands the result over, back to idle.          *)
(*                                                                         *)
(* Text is a sequence of symbols.  A symbol is one character, or a word    *)
(* the code never looks inside ("cfg", "Security Alert", ...).             *)
(***************************************************************************)
EXTENDS Integers, Sequences, FiniteSets, TLC

VARIABLES call, cmds, result

vars == <<call, cmds, result>>

\* Python's None for a text argument that was not given: a text made of one
\* symbol no text holds.  For a uid that was not given: no index is negative.
None == <<"None">>

NoUid == -1

\* An optional mapping argument: not given, or the mapping m.
NoMapping == [none |-> TRUE]

Mapping(m) == [none |-> FALSE, map |-> m]

-----------------------------------------------------------------------------
(* Text helpers: the str methods the module uses.                          *)

Whitespace == {" "}

RECURSIVE lstrip(_)
lstrip(s) ==
    IF s # <<>> /\ Head(s) \in Whitespace THEN lstrip(Tail(s)) ELSE s

RECURSIVE rstrip(_)
rstrip(s) ==
    IF s # <<>> /\ s[Len(s)] \in Whitespace
    THEN rstrip(SubSeq(s, 1, Len(s) - 1))
    ELSE s

strip(s) == rstrip(lstrip(s))

Contains(s, c) == \E n \in 1..Len(s) : s[n] = c

startswith(s, p) == Len(s) >= Len(p) /\ SubSeq(s, 1, Len(p)) = p

\* s.split(c): the fields between the occurrences of c, empty fields kept.
RECURSIVE splitOn(_, _)
splitOn(s, c) ==
    IF ~Contains(s, c) THEN <<s>>
    ELSE LET n == CHOOSE m \in 1..Len(s) :
                      s[m] = c /\ \A j \in 1..(m - 1) : s[j] # c
         IN  <<SubSeq(s, 1, n - 1)>> \o splitOn(SubSeq(s, n + 1, Len(s)), c)

\* s.split(): the maximal runs of non-whitespace symbols.
RECURSIVE splitWs(_)
splitWs(s) ==
    LET t == lstrip(s) IN
    IF t = <<>> THEN <<>>
    ELSE LET n == CHOOSE m \in 1..Len(t) :
                      /\ \A j \in 1..m : t[j] \notin Whitespace
                      /\ (m = Len(t) \/ t[m + 1] \in Whitespace)
         IN  <<SubSeq(t, 1, n)>> \o splitWs(SubSeq(t, n + 1, Len(t)))

\* s[:-1]
DropLast(s) == SubSeq(s, 1, Len(s) - 1)

\* A dict as a function; d[k] = v as an update or an insertion.
EmptyDict == <<>>

DictSet(d, k, v) ==
    [x \in (DOMAIN d) \cup {k} |-> IF x = k THEN v ELSE d[x]]

\* The sets of sequences over S of length at most n.
SeqsUpTo(S, n) == UNION {[1..k -> S] : k \in 0..n}

-----------------------------------------------------------------------------
(* Results handed to the caller.                                           *)

RetBool(b)    == [kind |-> "bool", val |-> b]
RetRaise(e)   == [kind |-> "raise", val |-> e]
RetMapping(m) == [kind |-> "mapping", val |-> m]
RetRecord(r)  == [kind |-> "record", val |-> r]
RetText(t)    == [kind |-> "text", val |-> t]
RetFuncRef(f) == [kind |-> "function", val |-> f]

-----------------------------------------------------------------------------
(* __parse_drac: the key=value section parser.                             *)

\* A merge that keeps the value a key already has (a setdefault).
section_update_keep_first(d, props) ==
    IF props[1] \in DOMAIN d THEN d ELSE DictSet(d, props[1], props[2])

\* dict([[prop.strip() for prop in i.split('=')]]) merged into the section:
\* the later value of a key replaces the earlier one.
section_update(d, props) == DictSet(d, props[1], props[2])

\* One iteration of the loop over output.splitlines().  The state is the
\* dict built so far, the current section and whether dict() has raised.
parse_drac_line(st, i) ==
    IF st.fault THEN st
    ELSE IF Len(rstrip(i)) > 0 /\ Contains(i, "=")
    THEN IF st.section \in DOMAIN st.drac
         THEN LET fields == splitOn(i, "=")
                  props  == [n \in 1..Len(fields) |-> strip(fields[n])]
              IN  IF Len(props) # 2
                  THEN [st EXCEPT !.fault = TRUE]
                  ELSE [st EXCEPT !.drac[st.section] =
                                      section_update(@, props)]
         ELSE st
    ELSE LET sec == DropLast(strip(i))
         IN  [st EXCEPT !.section = sec,
                        !.drac = IF sec \notin DOMAIN st.drac /\ sec # <<>>
                                 THEN DictSet(st.drac, sec, EmptyDict)
                                 ELSE st.drac]

RECURSIVE parse_drac_loop(_, _)
parse_drac_loop(st, output) ==
    IF output = <<>> THEN st
    ELSE parse_drac_loop(parse_drac_line(st, Head(output)), Tail(output))

parse_drac(output) ==
    LET st == parse_drac_loop(
                  [drac |-> EmptyDict, section |-> <<>>, fault |-> FALSE],
                  output)
    IN  IF st.fault THEN RetRaise("ValueError") ELSE RetMapping(st.drac)

-----------------------------------------------------------------------------
(* The dispatchers: __execute_cmd and __execute_ret.                       *)

\* Words joined by single spaces, as the format strings write them.
RECURSIVE Sp(_)
Sp(words) ==
    IF words = <<>> THEN <<>>
    ELSE IF Len(words) = 1 THEN <<words[1]>>
    ELSE <<words[1], " ">> \o Sp(Tail(words))

\* str.lower() on the words a module name is made of.
LowerSym(c) ==
    CASE c = "SERVER" -> "server"
      [] c = "SWITCH" -> "switch"
      [] c = "ALL"    -> "all"
      [] OTHER        -> c

lower(s) == [n \in 1..Len(s) |-> LowerSym(s[n])]

\* s.index(c): the position (from 1) of the first c.
IndexOf(s, c) == CHOOSE m \in 1..Len(s) : s[m] = c /\ \A j \in 1..(m - 1) : s[j] # c

\* The scope flag of __execute_cmd.
cmd_modswitch(module) ==
    IF module # None /\ module # <<>>
    THEN IF startswith(module, <<"ALL", "_">>)
         THEN <<"-a", " ">>
                  \o lower(SubSeq(module, IndexOf(module, "_") + 1, Len(module)))
         ELSE <<"-m", " ">> \o module
    ELSE <<>>

\* The scope flag of __execute_ret.
ret_modswitch(module) ==
    IF module # None /\ module # <<>>
    THEN IF module = <<"ALL">>
         THEN <<"-a", " ">>
         ELSE <<"-m", " ">> \o module
    ELSE <<>>

\* The command line handed to cmd.run_all.
racadm_line(command, host, admin_username, admin_password, modswitch) ==
    IF host = None \/ host = <<>>
    THEN <<"racadm", " ">> \o command \o <<" ">> \o modswitch
    ELSE <<"racadm", " ", "-r", " ">> \o host \o <<" ", "-u", " ">>
             \o admin_username \o <<" ", "-p", " ">> \o admin_password
             \o <<" ">> \o command \o <<" ">> \o modswitch

\* One external invocation: the line run and what the tool answered.
Invocation(line, r) ==
    [line |-> line, retcode |-> r.retcode, stdout |-> r.stdout]

\* __execute_cmd: the invocation and the boolean returned.
execute_cmd(command, host, admin_username, admin_password, module, r) ==
    [inv |-> Invocation(racadm_line(command, host, admin_username,
                                    admin_password, cmd_modswitch(module)), r),
     ret |-> (r.retcode = 0)]

\* A noise test that takes only the empty line for a blank one.
IsNoiseEmptyOnly(l) ==
    \/ startswith(l, <<"Security Alert">>)
    \/ startswith(l, <<"Continuing execution">>)
    \/ Len(l) = 0

\* The noise lines dropped from the output of a successful invocation.
IsNoise(l) ==
    \/ startswith(l, <<"Security Alert">>)
    \/ startswith(l, <<"Continuing execution">>)
    \/ Len(strip(l)) = 0

\* A cleaner that keeps every line.
clean_none(lines) == lines

clean(lines) == SelectSeq(lines, LAMBDA l : ~IsNoise(l))

\* __execute_ret: the invocation and the record returned.
execute_ret(command, host, admin_username, admin_password, module, r) ==
    [inv |-> Invocation(racadm_line(command, host, admin_username,
                                    admin_password, ret_modswitch(module)), r),
     ret |-> [retcode |-> r.retcode,
              stdout  |-> IF r.retcode # 0 THEN r.stdout ELSE clean(r.stdout)]]

\* str.splitlines(): the lines of a text, broken at "\n", "\r" and "\r\n";
\* a break at the end of the text opens no further line.
RECURSIVE splitlines(_)
splitlines(text) ==
    IF text = <<>> THEN <<>>
    ELSE IF ~\E n \in 1..Len(text) : text[n] \in {"\n", "\r"} THEN <<text>>
    ELSE LET n == CHOOSE m \in 1..Len(text) :
                      /\ text[m] \in {"\n", "\r"}
                      /\ \A j \in 1..(m - 1) : text[j] \notin {"\n", "\r"}
             b == IF text[n] = "\r" /\ n < Len(text) /\ text[n + 1] = "\n"
                  THEN 2 ELSE 1
         IN  <<SubSeq(text, 1, n - 1)>>
                 \o splitlines(SubSeq(text, n + b, Len(text)))

\* '\n'.join(lines)
RECURSIVE join_lines(_)
join_lines(lines) ==
    IF lines = <<>> THEN <<>>
    ELSE IF Len(lines) = 1 THEN lines[1]
    ELSE lines[1] \o <<"\n">> \o join_lines(Tail(lines))

\* The output of __execute_ret as one text: cleaned on exit code 0, as the
\* tool printed it otherwise.
cleaned_stdout(retcode, text) ==
    IF retcode # 0 THEN text ELSE join_lines(clean(splitlines(text)))

\* What an operation did: the invocations in the order issued, the result.
Outcome(invs, res) == [cmds |-> invs, result |-> res]

-----------------------------------------------------------------------------
(* list_users: sixteen getconfig queries, folded into a mapping from       *)
(* username to the user's index and attributes.                            *)

UserSlots == 16

\* One line of the output of the query for index idx.
list_users_line(st, idx, user) ==
    IF st.fault \/ st.brk THEN st
    ELSE IF ~startswith(user, <<"cfg">>) THEN st
    ELSE LET kv == splitOn(user, "=") IN
         IF Len(kv) # 2 THEN [st EXCEPT !.fault = TRUE]
         ELSE LET key == kv[1]
                  val == kv[2]
              IN  IF startswith(key, <<"cfg", "UserAdminUserName">>)
                  THEN IF val # <<>>
                       THEN [st EXCEPT
                               !.cur_username = strip(val),
                               !.users = DictSet(@, strip(val),
                                                 [index |-> idx,
                                                  attrs |-> EmptyDict])]
                       ELSE [st EXCEPT !.cur_username = strip(val),
                                       !.brk = TRUE]
                  ELSE IF Len(st.cur_username) > 0
                       THEN [st EXCEPT !.users[st.cur_username].attrs =
                                           DictSet(@, key, val)]
                       ELSE st

RECURSIVE list_users_lines(_, _, _)
list_users_lines(st, idx, lines) ==
    IF lines = <<>> THEN st
    ELSE list_users_lines(list_users_line(st, idx, Head(lines)), idx,
                          Tail(lines))

\* The queries for the indices idx..16, in ascending order.  ans[i] is the
\* tool's answer to the query for index i.
RECURSIVE list_users_from(_, _, _, _, _, _, _)
list_users_from(st, invs, idx, host, admin_username, admin_password, ans) ==
    IF idx > UserSlots \/ st.fault THEN [st |-> st, invs |-> invs]
    ELSE LET x == execute_ret(
                      Sp(<<"getconfig", "-g", "cfgUserAdmin", "-i",
                           ToString(idx)>>),
                      host, admin_username, admin_password, None, ans[idx])
         IN  list_users_from(
                 list_users_lines([st EXCEPT !.brk = FALSE], idx,
                                  x.ret.stdout),
                 Append(invs, x.inv), idx + 1,
                 host, admin_username, admin_password, ans)

list_users(host, admin_username, admin_password, module, ans) ==
    LET run == list_users_from(
                   [users |-> EmptyDict, cur_username |-> <<>>,
                    brk |-> FALSE, fault |-> FALSE],
                   <<>>, 1, host, admin_username, admin_password, ans)
    IN  Outcome(run.invs,
                IF run.st.fault THEN RetRaise("ValueError")
                ELSE RetMapping(run.st.users))

-----------------------------------------------------------------------------
(* The operations that change the configuration.                           *)

set_niccfg(ip, subnet, gateway, dhcp, host, admin_username, admin_password, module, r) ==
    IF ~dhcp /\ (ip = None \/ subnet = None \/ gateway = None)
    THEN Outcome(<<>>, RetRaise("TypeError"))
    ELSE LET cmdstr == <<"setniccfg", " ">> \o
                          (IF dhcp THEN <<"-d", " ">>
                           ELSE <<"-s", " ">> \o ip \o <<" ">> \o subnet
                                    \o <<" ">> \o gateway)
             x == execute_cmd(cmdstr, host, admin_username, admin_password,
                              module, r)
         IN  Outcome(<<x.inv>>, RetBool(x.ret))

set_nicvlan(vlan, host, admin_username, admin_password, module, r) ==
    LET cmdstr == <<"setniccfg", " ", "-v", " ">> \o
                      (IF vlan # None /\ vlan # <<>> THEN vlan ELSE <<>>)
        x == execute_cmd(cmdstr, host, admin_username, admin_password,
                         module, r)
    IN  Outcome(<<x.inv>>, RetBool(x.ret))

\* The loop of nameservers from server i on; r[i] answers the i-th command.
RECURSIVE nameservers_from(_, _, _, _, _, _, _, _)
nameservers_from(i, invs, ns, host, admin_username, admin_password, module, r) ==
    IF i > Len(ns) THEN Outcome(invs, RetBool(TRUE))
    ELSE LET x == execute_cmd(
                      Sp(<<"config", "-g", "cfgLanNetworking", "-o">>)
                          \o <<" ", "cfgDNSServer", ToString(i), " ">>
                          \o ns[i],
                      host, admin_username, admin_password, module, r[i])
         IN  IF ~x.ret THEN Outcome(Append(invs, x.inv), RetBool(FALSE))
             ELSE nameservers_from(i + 1, Append(invs, x.inv), ns, host,
                                   admin_username, admin_password, module, r)

nameservers(ns, host, admin_username, admin_password, module, r) ==
    IF Len(ns) > 2 THEN Outcome(<<>>, RetBool(FALSE))
    ELSE nameservers_from(1, <<>>, ns, host, admin_username, admin_password,
                          module, r)

\* r[1] answers the first command issued, r[2] the second.
syslog(server, enable, host, admin_username, admin_password, module, r) ==
    LET on == execute_cmd(
                  Sp(<<"config", "-g", "cfgRemoteHosts", "-o",
                       "cfgRhostsSyslogEnable", "1">>),
                  host, admin_username, admin_password, None, r[1])
        srv == execute_cmd(
                   Sp(<<"config", "-g", "cfgRemoteHosts", "-o",
                        "cfgRhostsSyslogServer1">>) \o <<" ">> \o server,
                   host, admin_username, admin_password, module, r[2])
        off(a) == execute_cmd(
                      Sp(<<"config", "-g", "cfgRemoteHosts", "-o",
                           "cfgRhostsSyslogEnable", "0">>),
                      host, admin_username, admin_password, module, a)
    IN  IF enable
        THEN IF on.ret
             THEN Outcome(<<on.inv, srv.inv>>, RetBool(srv.ret))
             ELSE Outcome(<<on.inv, off(r[2]).inv>>, RetBool(off(r[2]).ret))
        ELSE Outcome(<<off(r[1]).inv>>, RetBool(off(r[1]).ret))

email_alerts(action, host, admin_username, admin_password, r) ==
    LET x == IF action
             THEN execute_cmd(
                      Sp(<<"config", "-g", "cfgEmailAlert", "-o",
                           "cfgEmailAlertEnable", "-i", "1", "1">>),
                      host, admin_username, admin_password, None, r)
             ELSE execute_cmd(
                      Sp(<<"config", "-g", "cfgEmailAlert", "-o",
                           "cfgEmailAlertEnable", "-i", "1", "0">>),
                      None, None, None, None, r)
    IN  Outcome(<<x.inv>>, RetBool(x.ret))

\* A lookup that answers index 0 for a name the listing does not hold.
lookup_uid_guarded(listing, username) ==
    IF listing.result.kind # "mapping" THEN [fault |-> listing.result.val]
    ELSE IF username \notin DOMAIN listing.result.val
    THEN [fault |-> "", uid |-> 0]
    ELSE [fault |-> "", uid |-> listing.result.val[username].index]

\* user[username]['index'] on the mapping list_users returned.
lookup_uid(listing, username) ==
    IF listing.result.kind # "mapping" THEN [fault |-> listing.result.val]
    ELSE IF username \notin DOMAIN listing.result.val
    THEN [fault |-> "KeyError"]
    ELSE [fault |-> "", uid |-> listing.result.val[username].index]

\* The command that clears the user name at index uid.
delete_command(uid) ==
    Sp(<<"config", "-g", "cfgUserAdmin", "-o", "cfgUserAdminUserName",
         "-i", ToString(uid), "\"\"">>)

\* ans answers the queries of the lookup, r the delete command.
delete_user(username, uid, host, admin_username, admin_password, ans, r) ==
    LET listing == list_users(None, None, None, None, ans)
        found   == lookup_uid(listing, username)
        looked  == IF uid = NoUid THEN listing.cmds ELSE <<>>
        the_uid == IF uid = NoUid THEN found.uid ELSE uid
    IN  IF uid = NoUid /\ found.fault # ""
        THEN Outcome(looked, RetRaise(found.fault))
        ELSE IF the_uid # 0
        THEN LET x == execute_cmd(delete_command(the_uid), host,
                                  admin_username, admin_password, None, r)
             IN  Outcome(Append(looked, x.inv), RetBool(x.ret))
        ELSE Outcome(looked, RetBool(FALSE))

change_password(username, password, uid, host, admin_username, admin_password, module, ans, r) ==
    LET listing == list_users(host, admin_username, admin_password, module,
                              ans)
        found   == lookup_uid(listing, username)
        looked  == IF uid = NoUid THEN listing.cmds ELSE <<>>
        the_uid == IF uid = NoUid THEN found.uid ELSE uid
    IN  IF uid = NoUid /\ found.fault # ""
        THEN Outcome(looked, RetRaise(found.fault))
        ELSE IF the_uid # 0
        THEN LET x == execute_cmd(
                          Sp(<<"config", "-g", "cfgUserAdmin", "-o",
                               "cfgUserAdminPassword", "-i",
                               ToString(the_uid)>>) \o <<" ">> \o password,
                          host, admin_username, admin_password, module, r)
             IN  Outcome(Append(looked, x.inv), RetBool(x.ret))
        ELSE Outcome(looked, RetBool(FALSE))

deploy_password(username, password, host, admin_username, admin_password, module, r) ==
    LET x == execute_cmd(<<"deploy", " ", "-u", " ">> \o username
                             \o <<" ", "-p", " ">> \o password,
                         host, admin_username, admin_password, module, r)
    IN  Outcome(<<x.inv>>, RetBool(x.ret))

deploy_snmp(snmp, host, admin_username, admin_password, module, r) ==
    LET x == execute_cmd(<<"deploy", " ", "-v", " ", "SNMPv2", " ">> \o snmp
                             \o <<" ", "ro">>,
                         host, admin_username, admin_password, module, r)
    IN  Outcome(<<x.inv>>, RetBool(x.ret))

\* The privilege table, each flag with the value of its hexadecimal text.
privileges ==
    (<<"login">> :> 1) @@ (<<"drac">> :> 2) @@ (<<"user_management">> :> 4)
    @@ (<<"clear_logs">> :> 8) @@ (<<"server_control_commands">> :> 16)
    @@ (<<"console_redirection">> :> 32) @@ (<<"virtual_media">> :> 64)
    @@ (<<"test_alerts">> :> 128) @@ (<<"debug_commands">> :> 256)

\* permission += int(privileges[perm], 16)
mask_add(permission, value) == permission + value

\* The loop over permissions.split(','), from item n on.
RECURSIVE privilege_mask(_, _, _)
privilege_mask(permission, items, n) ==
    IF n > Len(items) THEN permission
    ELSE LET perm == strip(items[n])
         IN  privilege_mask(IF perm \in DOMAIN privileges
                            THEN mask_add(permission, privileges[perm])
                            ELSE permission,
                            items, n + 1)

HexDigit == <<"0", "1", "2", "3", "4", "5", "6", "7", "8", "9",
              "A", "B", "C", "D", "E", "F">>

RECURSIVE hex(_)
hex(n) == IF n < 16 THEN <<HexDigit[n + 1]>>
          ELSE hex(n \div 16) \o <<HexDigit[(n % 16) + 1]>>

\* '{:08X}': upper-case hexadecimal, padded with zeros to eight digits.
hex08(n) == [i \in 1..(IF Len(hex(n)) < 8 THEN 8 - Len(hex(n)) ELSE 0) |-> "0"]
                \o hex(n)

set_permissions(username, permissions, uid, host, admin_username, admin_password, ans, r) ==
    LET listing == list_users(None, None, None, None, ans)
        found   == lookup_uid(listing, username)
        looked  == IF uid = NoUid THEN listing.cmds ELSE <<>>
        the_uid == IF uid = NoUid THEN found.uid ELSE uid
        permission == privilege_mask(0, splitOn(permissions, ","), 1)
    IN  IF uid = NoUid /\ found.fault # ""
        THEN Outcome(looked, RetRaise(found.fault))
        ELSE LET x == execute_cmd(
                          Sp(<<"config", "-g", "cfgUserAdmin", "-o",
                               "cfgUserAdminPrivilege", "-i",
                               ToString(the_uid)>>)
                              \o <<" ", "0x">> \o hex08(permission),
                          host, admin_username, admin_password, None, r)
             IN  Outcome(Append(looked, x.inv), RetBool(x.ret))

\* sorted(..., reverse=True)
RECURSIVE sorted_reverse(_)
sorted_reverse(S) ==
    IF S = {} THEN <<>>
    ELSE LET m == CHOOSE x \in S : \A y \in S : y <= x
         IN  <<m>> \o sorted_reverse(S \ {m})

\* Taking the first element of the list instead of the last.
pop_first(l) == l[1]

\* list.pop(): the last element.
pop(l) == l[Len(l)]

\* The indices a new user may get, in the order create_user sorts them.
\* The free indices of a band that runs to the last slot.
free_uids_wide(users) ==
    sorted_reverse((2..16) \ {users[name].index : name \in DOMAIN users})

free_uids(users) ==
    sorted_reverse((2..11) \ {users[name].index : name \in DOMAIN users})

\* A failed step that leaves the partly created user in place.
create_rollback_none(done, username, uid, rd) ==
    Outcome(done, RetBool(FALSE))

\* The data of a failed step: the rollback and the boolean False.
create_rollback(done, username, uid, rd) ==
    Outcome(done \o delete_user(username, uid, None, None, None,
                                <<>>, rd).cmds,
            RetBool(FALSE))

\* r.name, r.perm, r.pass, r.enable answer the four steps, r.delete the
\* rollback; ans answers the lookup made when no users mapping is given.
create_user(username, password, permissions, users, host, admin_username, admin_password, ans, r) ==
    LET listing  == list_users(None, None, None, None, ans)
        looked   == IF users.none THEN listing.cmds ELSE <<>>
        the_users == IF users.none THEN listing.result.val ELSE users.map
    IN  IF users.none /\ listing.result.kind # "mapping"
        THEN Outcome(looked, listing.result)
        ELSE IF username \in DOMAIN the_users
        THEN Outcome(looked, RetBool(FALSE))
        ELSE IF free_uids(the_users) = <<>>
        THEN Outcome(looked, RetRaise("IndexError"))
        ELSE
        LET uid == pop(free_uids(the_users))
            s1  == execute_cmd(
                       Sp(<<"config", "-g", "cfgUserAdmin", "-o",
                            "cfgUserAdminUserName", "-i", ToString(uid)>>)
                           \o <<" ">> \o username,
                       host, admin_username, admin_password, None, r.name)
            s2  == set_permissions(username, permissions, uid, None, None,
                                   None, <<>>, r.perm)
            s3  == change_password(username, password, uid, None, None,
                                   None, None, <<>>, r.pass)
            s4  == execute_cmd(
                       Sp(<<"config", "-g", "cfgUserAdmin", "-o",
                            "cfgUserAdminEnable", "-i", ToString(uid), "1">>),
                       None, None, None, None, r.enable)
            d1  == Append(looked, s1.inv)
            d2  == d1 \o s2.cmds
            d3  == d2 \o s3.cmds
            d4  == Append(d3, s4.inv)
        IN  IF ~s1.ret THEN create_rollback(d1, username, uid, r.delete)
            ELSE IF ~s2.result.val
            THEN create_rollback(d2, username, uid, r.delete)
            ELSE IF ~s3.result.val
            THEN create_rollback(d3, username, uid, r.delete)
            ELSE IF ~s4.ret
            THEN create_rollback(d4, username, uid, r.delete)
            ELSE Outcome(d4, RetBool(TRUE))

set_snmp(community, host, admin_username, admin_password, r) ==
    LET x == execute_cmd(
                 Sp(<<"config", "-g", "cfgOobSnmp", "-o",
                      "cfgOobSnmpAgentCommunity">>) \o <<" ">> \o community,
                 host, admin_username, admin_password, None, r)
    IN  Outcome(<<x.inv>>, RetBool(x.ret))

\* host and the credentials are arguments of format(), not of the
\* dispatcher, which gets the command alone.
set_network(ip, netmask, gateway, host, admin_username, admin_password, r) ==
    LET x == execute_cmd(<<"setniccfg", " ", "-s", " ">> \o ip \o <<" ">>
                             \o netmask \o <<" ">> \o gateway,
                         None, None, None, None, r)
    IN  Outcome(<<x.inv>>, RetBool(x.ret))

serveraction(action, host, admin_username, admin_password, module, r) ==
    LET x == execute_cmd(<<"serveraction", " ", action>>,
                         host, admin_username, admin_password, module, r)
    IN  Outcome(<<x.inv>>, RetBool(x.ret))

server_reboot(host, admin_username, admin_password, module, r) ==
    serveraction("powercycle", host, admin_username, admin_password,
                 module, r)

server_poweroff(host, admin_username, admin_password, module, r) ==
    serveraction("powerdown", host, admin_username, admin_password,
                 module, r)

server_poweron(host, admin_username, admin_password, module, r) ==
    serveraction("powerup", host, admin_username, admin_password, module, r)

server_hardreset(host, admin_username, admin_password, module, r) ==
    serveraction("hardreset", host, admin_username, admin_password,
                 module, r)

\* r[1] answers the first command, r[2] the second.
\* A server_pxe that calls the reboot operation when both commands succeed.
server_pxe_rebooting(host, admin_username, admin_password, r) ==
    LET dev  == execute_cmd(
                    Sp(<<"config", "-g", "cfgServerInfo", "-o",
                         "cfgServerFirstBootDevice", "PXE">>),
                    host, admin_username, admin_password, None, r[1])
        once == execute_cmd(
                    Sp(<<"config", "-g", "cfgServerInfo", "-o",
                         "cfgServerBootOnce", "1">>),
                    host, admin_username, admin_password, None, r[2])
        boot == execute_cmd(<<"serveraction", " ", "powercycle">>,
                            host, admin_username, admin_password, None, r[2])
    IN  IF dev.ret
        THEN IF once.ret
             THEN Outcome(<<dev.inv, once.inv, boot.inv>>, RetBool(boot.ret))
             ELSE Outcome(<<dev.inv, once.inv>>, RetBool(FALSE))
        ELSE Outcome(<<dev.inv>>, RetBool(FALSE))

server_pxe(host, admin_username, admin_password, r) ==
    LET dev  == execute_cmd(
                    Sp(<<"config", "-g", "cfgServerInfo", "-o",
                         "cfgServerFirstBootDevice", "PXE">>),
                    host, admin_username, admin_password, None, r[1])
        once == execute_cmd(
                    Sp(<<"config", "-g", "cfgServerInfo", "-o",
                         "cfgServerBootOnce", "1">>),
                    host, admin_username, admin_password, None, r[2])
    IN  IF dev.ret
        THEN IF once.ret
             THEN Outcome(<<dev.inv, once.inv>>, RetFuncRef("server_reboot"))
             ELSE Outcome(<<dev.inv, once.inv>>, RetBool(FALSE))
        ELSE Outcome(<<dev.inv>>, RetBool(FALSE))

\* name[0:14]; host and the credentials are arguments of format().
set_slotname(slot, name, host, admin_username, admin_password, r) ==
    LET x == execute_cmd(<<"setslotname", " ", "-i", " ">> \o slot \o <<" ">>
                             \o SubSeq(name, 1, IF Len(name) < 14
                                                THEN Len(name) ELSE 14),
                         None, None, None, None, r)
    IN  Outcome(<<x.inv>>, RetBool(x.ret))

set_chassis_name(name, host, admin_username, admin_password, r) ==
    LET x == execute_cmd(<<"setsysinfo", " ", "-c", " ", "chassisname", " ">>
                             \o name,
                         host, admin_username, admin_password, None, r)
    IN  Outcome(<<x.inv>>, RetBool(x.ret))

set_chassis_location(location, host, admin_username, admin_password, r) ==
    LET x == execute_cmd(<<"setsysinfo", " ", "-c", " ", "chassislocation",
                           " ">> \o location,
                         host, admin_username, admin_password, None, r)
    IN  Outcome(<<x.inv>>, RetBool(x.ret))

set_general(cfg_sec, cfg_var, val, host, admin_username, admin_password, r) ==
    LET x == execute_cmd(<<"config", " ", "-g", " ">> \o cfg_sec
                             \o <<" ", "-o", " ">> \o cfg_var \o <<" ">>
                             \o val,
                         host, admin_username, admin_password, None, r)
    IN  Outcome(<<x.inv>>, RetBool(x.ret))

set_chassis_datacenter(location, host, admin_username, admin_password, r) ==
    set_general(<<"cfgLocation">>, <<"cfgLocationDatacenter">>, location,
                host, admin_username, admin_password, r)

-----------------------------------------------------------------------------
(* The queries.                                                            *)

system_info(host, admin_username, admin_password, module, r) ==
    LET x == execute_ret(<<"getsysinfo">>, host, admin_username,
                         admin_password, module, r)
    IN  Outcome(<<x.inv>>,
                IF x.ret.retcode # 0 THEN RetRecord(x.ret)
                ELSE parse_drac(x.ret.stdout))

\* re.split('  +', s): the fields between runs of two or more spaces.
RECURSIVE split_runs(_)
split_runs(s) ==
    IF ~\E n \in 1..(Len(s) - 1) : s[n] = " " /\ s[n + 1] = " " THEN <<s>>
    ELSE LET n == CHOOSE m \in 1..(Len(s) - 1) :
                      /\ s[m] = " " /\ s[m + 1] = " "
                      /\ \A j \in 1..(m - 1) : ~(s[j] = " " /\ s[j + 1] = " ")
             rest == SubSeq(s, n, Len(s))
             k == CHOOSE m \in 1..(Len(rest) + 1) :
                      /\ \A j \in 1..(m - 1) : rest[j] = " "
                      /\ (m = Len(rest) + 1 \/ rest[m] # " ")
         IN  <<SubSeq(s, 1, n - 1)>> \o split_runs(SubSeq(rest, k, Len(rest)))

\* The field-name lists of the four block types.
fields ==
    [server  |-> <<"name", "idrac_version", "blade_type", "gen",
                   "updateable">>,
     switch  |-> <<"name", "model_name", "hw_version", "fw_version">>,
     cmc     |-> <<"name", "cmc_version", "updateable">>,
     chassis |-> <<"name", "fw_version", "fqdd">>]

\* A pairing that runs to the end of the longer list, None filling the
\* shorter one (the builtin map of Python 2).
zip_padded(names, line) ==
    LET m == IF Len(names) < Len(line) THEN Len(line) ELSE Len(names)
        key(n) == IF n <= Len(names) THEN names[n] ELSE "None"
    IN  [k \in {key(n) : n \in 1..m} |->
            LET n == CHOOSE j \in 1..m :
                         key(j) = k /\ \A i \in (j + 1)..m : key(i) # k
            IN  IF n <= Len(line) THEN line[n] ELSE None]

\* dict((k, v) for d in map(mapit, names, line) for (k, v) in d.items()):
\* the pairing stops at the shorter of the two lists.
zip_fields(names, line) ==
    LET m == IF Len(names) < Len(line) THEN Len(names) ELSE Len(line)
    IN  [k \in {names[n] : n \in 1..m} |->
            line[CHOOSE n \in 1..m :
                     names[n] = k /\ \A i \in (n + 1)..m : names[i] # k]]

\* One iteration of the loop of inventory over the lines of the listing.
inventory_line(st, l) ==
    IF startswith(l, <<"<", "Server", ">">>)
    THEN [st EXCEPT !.in_server = TRUE, !.in_switch = FALSE,
                    !.in_cmc = FALSE, !.in_chassis = FALSE]
    ELSE IF startswith(l, <<"<", "Switch", ">">>)
    THEN [st EXCEPT !.in_server = FALSE, !.in_switch = TRUE,
                    !.in_cmc = FALSE, !.in_chassis = FALSE]
    ELSE IF startswith(l, <<"<", "CMC", ">">>)
    THEN [st EXCEPT !.in_server = FALSE, !.in_switch = FALSE,
                    !.in_cmc = TRUE, !.in_chassis = FALSE]
    ELSE IF startswith(l, <<"<", "Chassis Infrastructure", ">">>)
    THEN [st EXCEPT !.in_server = FALSE, !.in_switch = FALSE,
                    !.in_cmc = FALSE, !.in_chassis = TRUE]
    ELSE IF Len(l) < 1 THEN st
    ELSE LET line == split_runs(strip(l))
             a == IF st.in_server
                  THEN [st.ret EXCEPT !.server =
                          DictSet(@, line[1], zip_fields(fields.server, line))]
                  ELSE st.ret
             b == IF st.in_switch
                  THEN [a EXCEPT !.switch =
                          DictSet(@, line[1], zip_fields(fields.switch, line))]
                  ELSE a
             c == IF st.in_cmc
                  THEN [b EXCEPT !.cmc =
                          DictSet(@, line[1], zip_fields(fields.cmc, line))]
                  ELSE b
             d == IF st.in_chassis
                  THEN [c EXCEPT !.chassis =
                          DictSet(@, line[1],
                                  zip_fields(fields.chassis, line))]
                  ELSE c
         IN  [st EXCEPT !.ret = d]

RECURSIVE inventory_loop(_, _)
inventory_loop(st, lines) ==
    IF lines = <<>> THEN st
    ELSE inventory_loop(inventory_line(st, Head(lines)), Tail(lines))

\* A start of the scan with the server block already active.
inventory_start_in_server ==
    [in_server |-> TRUE, in_switch |-> FALSE, in_cmc |-> FALSE,
     in_chassis |-> FALSE,
     ret |-> [server |-> EmptyDict, switch |-> EmptyDict,
              cmc |-> EmptyDict, chassis |-> EmptyDict]]

inventory_start ==
    [in_server |-> FALSE, in_switch |-> FALSE, in_cmc |-> FALSE,
     in_chassis |-> FALSE,
     ret |-> [server |-> EmptyDict, switch |-> EmptyDict,
              cmc |-> EmptyDict, chassis |-> EmptyDict]]

inventory(host, admin_username, admin_password, r) ==
    LET x == execute_ret(<<"getversion">>, host, admin_username,
                         admin_password, None, r)
    IN  Outcome(<<x.inv>>,
                IF x.ret.retcode # 0 THEN RetRecord(x.ret)
                ELSE RetMapping(inventory_loop(inventory_start,
                                               x.ret.stdout).ret))

\* rinv answers getversion, r answers getniccfg.
network_info(host, admin_username, admin_password, module, rinv, r) ==
    LET inv == inventory(host, admin_username, admin_password, rinv)
        x   == execute_ret(<<"getniccfg">>, host, admin_username,
                           admin_password, module, r)
    IN  IF inv.result.kind # "mapping"
        THEN Outcome(inv.cmds, RetRaise("TypeError"))
        ELSE IF module \notin DOMAIN inv.result.val.switch
        THEN Outcome(inv.cmds,
                     RetRecord([retcode |-> -1,
                                stdout |-> << <<"No switch", " ">> \o module
                                               \o <<" ", "found.">> >>]))
        ELSE Outcome(Append(inv.cmds, x.inv),
                     parse_drac(<< <<"Network", ":">>,
                                   <<"Device", " ", "=", " ">> \o module >>
                                    \o x.ret.stdout))

\* The record server_powerstatus builds: its exit code is the literal 0.
server_powerstatus(host, admin_username, admin_password, module, r) ==
    LET x  == execute_ret(<<"serveraction", " ", "powerstatus">>, host,
                          admin_username, admin_password, module, r)
        out == x.ret.stdout
        r0 == ("retcode" :> 0)
        r1 == IF out = << <<"ON">> >>
              THEN ("status" :> TRUE) @@ ("comment" :> <<"Power is on">>) @@ r0
              ELSE r0
        r2 == IF out = << <<"OFF">> >>
              THEN ("status" :> FALSE) @@ ("comment" :> <<"Power is on">>)
                       @@ r1
              ELSE r1
        r3 == IF out # <<>> /\ startswith(out[1], <<"ERROR">>)
              THEN ("status" :> FALSE) @@ ("comment" :> out) @@ r2
              ELSE r2
    IN  Outcome(<<x.inv>>, RetRecord(r3))

\* A record with the slot name and the host name exchanged.
slot_record_swapped(flds) ==
    [slot     |-> flds[1],
     slotname |-> IF Len(flds) > 2 THEN flds[3] ELSE <<>>,
     hostname |-> IF Len(flds) > 1 THEN flds[2] ELSE <<>>]

\* The record of one data line of the slot listing.
slot_record(flds) ==
    [slot     |-> flds[1],
     slotname |-> IF Len(flds) > 1 THEN flds[2] ELSE <<>>,
     hostname |-> IF Len(flds) > 2 THEN flds[3] ELSE <<>>]

\* One iteration of the loop of list_slotnames.
list_slotnames_line(st, l) ==
    IF st.fault THEN st
    ELSE IF startswith(l, <<"<">>) THEN [st EXCEPT !.stripheader = FALSE]
    ELSE IF st.stripheader THEN st
    ELSE LET flds == splitWs(l)
         IN  IF flds = <<>> THEN [st EXCEPT !.fault = TRUE]
             ELSE [st EXCEPT !.slots = DictSet(@, flds[1], slot_record(flds))]

RECURSIVE list_slotnames_loop(_, _)
list_slotnames_loop(st, lines) ==
    IF lines = <<>> THEN st
    ELSE list_slotnames_loop(list_slotnames_line(st, Head(lines)),
                             Tail(lines))

list_slotnames(host, admin_username, admin_password, r) ==
    LET x  == execute_ret(<<"getslotname">>, host, admin_username,
                          admin_password, None, r)
        st == list_slotnames_loop(
                  [slots |-> EmptyDict, stripheader |-> TRUE,
                   fault |-> FALSE],
                  x.ret.stdout)
    IN  Outcome(<<x.inv>>,
                IF x.ret.retcode # 0 THEN RetRecord(x.ret)
                ELSE IF st.fault THEN RetRaise("IndexError")
                ELSE RetMapping(st.slots))

get_slotname(slot, host, admin_username, admin_password, r) ==
    LET slots == list_slotnames(host, admin_username, admin_password, r)
    IN  Outcome(slots.cmds,
                IF slots.result.kind = "raise" THEN slots.result
                ELSE IF slots.result.kind = "mapping"
                        /\ slot \in DOMAIN slots.result.val
                THEN RetMapping(slots.result.val[slot])
                ELSE RetRaise("KeyError"))

\* system_info(...)['Chassis Information'][key]
chassis_information(key, host, admin_username, admin_password, r) ==
    LET info == system_info(host, admin_username, admin_password, None, r)
    IN  Outcome(info.cmds,
                IF info.result.kind = "raise" THEN info.result
                ELSE IF info.result.kind = "mapping"
                        /\ <<"Chassis Information">> \in DOMAIN info.result.val
                        /\ key \in DOMAIN
                               info.result.val[<<"Chassis Information">>]
                THEN RetText(info.result.val[<<"Chassis Information">>][key])
                ELSE RetRaise("KeyError"))

get_chassis_name(host, admin_username, admin_password, r) ==
    chassis_information(<<"Chassis Name">>, host, admin_username,
                        admin_password, r)

get_chassis_location(host, admin_username, admin_password, r) ==
    chassis_information(<<"Chassis Location">>, host, admin_username,
                        admin_password, r)

\* The branch of get_general taken on a nonzero exit code: the record.
get_general_failed(ret) == RetRecord(ret)

get_general(cfg_sec, cfg_var, host, admin_username, admin_password, r) ==
    LET x == execute_ret(<<"getconfig", " ", "-g", " ">> \o cfg_sec
                             \o <<" ", "-o", " ">> \o cfg_var,
                         host, admin_username, admin_password, None, r)
    IN  Outcome(<<x.inv>>,
                IF x.ret.retcode = 0 THEN RetText(x.ret.stdout)
                ELSE get_general_failed(x.ret))

get_chassis_datacenter(host, admin_username, admin_password, r) ==
    get_general(<<"cfgLocation">>, <<"cfgLocationDatacenter">>, host,
                admin_username, admin_password, r)

-----------------------------------------------------------------------------
(* The state after loading the module: no call made yet.                   *)

Init ==
    /\ call = [op |-> "idle"]
    /\ cmds = <<>>
    /\ result = [kind |-> "none"]

Idle == call.op = "idle"

\* The caller has taken the result; nothing of the call is kept.
Return ==
    /\ ~Idle
    /\ call' = [op |-> "idle"]
    /\ cmds' = <<>>
    /\ result' = [kind |-> "none"]

-----------------------------------------------------------------------------
(* The inputs of the calls: arguments, and the tool's answers.             *)

Local == [host |-> None, admin_username |-> None, admin_password |-> None]

Remote == [host |-> <<"10.0.0.1">>, admin_username |-> <<"root">>,
           admin_password |-> <<"calvin">>]

Targets == {Local, Remote}

Modules == {None, <<"server-1">>, <<"switch-1">>, <<"ALL", "_", "SERVER">>,
            <<"ALL", "_", "SWITCH">>, <<"ALL">>}

RetCodes == {0, 1, 2}

ErrorOutput == << <<"ERROR", ":", " ", "Unable to perform requested operation.">> >>

\* The answer to a command whose output the module does not read.
Answer(rc) == [retcode |-> rc, stdout |-> IF rc = 0 THEN <<>> ELSE ErrorOutput]

Answers == {Answer(rc) : rc \in RetCodes}

\* The answers to a query whose successful outputs are outs.
QueryAnswers(outs) == [retcode : RetCodes, stdout : outs \cup {ErrorOutput}]

\* getconfig -g cfgUserAdmin -i idx, for a slot holding user name.
UserOutput(idx, name) ==
    << <<"#", " ", "cfg", "UserAdminIndex", "=", ToString(idx)>>,
       <<"cfg", "UserAdminUserName", "=">> \o name,
       <<"cfg", "UserAdminEnable", "=", "1">> >>

\* User tables of the controller: the name at each index, <<>> for none.
Table(named) == [i \in 1..UserSlots |->
                    IF i \in DOMAIN named THEN named[i] ELSE <<>>]

UserTables ==
    { Table(1 :> <<"root">>),
      Table((1 :> <<"root">>) @@ (2 :> <<"alice">>) @@ (3 :> <<"bob">>)
            @@ (5 :> <<"carol">>)),
      Table((1 :> <<"root">>) @@ (2 :> <<"alice">>) @@ (4 :> <<"alice">>)),
      [i \in 1..UserSlots |-> IF i <= 12 THEN <<"u", ToString(i)>> ELSE <<>>] }

\* The queries of a lookup that fail: none, one, all.
LookupFailures == { {}, {3}, 1..UserSlots }

LookupAnswers ==
    { [i \in 1..UserSlots |->
          IF i \in failed THEN [retcode |-> 1, stdout |-> ErrorOutput]
          ELSE [retcode |-> 0, stdout |-> UserOutput(i, table[i])]]
      : table \in UserTables, failed \in LookupFailures }

Usernames == { <<"alice">>, <<"diana">> }

Uids == {NoUid, 0, 4}

\* The users mapping whose users hold the indices of U.
UsersAt(U) ==
    [name \in {<<"u", ToString(i)>> : i \in U} |->
        [index |-> CHOOSE i \in U : name = <<"u", ToString(i)>>,
         attrs |-> EmptyDict]]

\* Mappings a caller may hand to create_user as users.
UserMappings ==
    { NoMapping,
      Mapping(EmptyDict),
      Mapping((<<"alice">> :> [index |-> 2, attrs |-> EmptyDict])
                  @@ (<<"bob">> :> [index |-> 3, attrs |-> EmptyDict])
                  @@ (<<"carol">> :> [index |-> 5, attrs |-> EmptyDict])),
      Mapping(UsersAt(2..11)) }

CreateAnswers ==
    [name : {Answer(0), Answer(1)}, perm : {Answer(0), Answer(1)},
     pass : {Answer(0), Answer(1)}, enable : {Answer(0), Answer(1)},
     delete : {Answer(0), Answer(1)}]

SysinfoOutputs ==
    { << <<"Security Alert", ":", " ", "Certificate is invalid">>,
         <<"Continuing execution", ".">>,
         <<>>,
         <<"Chassis Information", ":">>,
         <<"Chassis Name", " ", "=", " ", "MyChassis">>,
         <<"Chassis Location", "=", "Rack 4">>,
         <<>>,
         <<"CMC Information", ":">>,
         <<"Firmware Version", "=", "5.0">> >>,
      << <<"CMC Information", ":">>, <<"Firmware Version", "=", "5.0">> >>,
      <<>> }

VersionOutputs ==
    { << <<"<", "Server", ">", " ", " ", "<", "iDRAC Version", ">">>,
         <<"server-1", " ", " ", "1.57", " ", " ", "PowerEdge M620">>,
         <<>>,
         <<"<", "Switch", ">", " ", " ", "<", "Model Name", ">">>,
         <<"switch-1", " ", " ", "MXL 10/40GbE", " ", " ", "X01", " ", " ",
           "9.2">> >>,
      <<>> }

NiccfgOutputs ==
    { << <<"DHCP Enabled", " ", "=", " ", "No">>,
         <<"IP Address", " ", "=", " ", "10.0.0.9">> >> }

PowerOutputs == { << <<"ON">> >>, << <<"OFF">> >> }

SlotOutputs ==
    { << <<"<", "SLOT", ">", " ", "<", "SLOT NAME", ">">>,
         <<"1", " ", " ", "SLOT-01", " ", "host1">>,
         <<"2", " ", " ", "SLOT-02">> >>,
      << <<"<", "SLOT", ">">> >> }

GeneralOutputs == { << <<"dc-east">> >> }

\* Slot names of 3, 14, 15 and 16 characters.
SlotNames == { [i \in 1..n |-> HexDigit[i]] : n \in {3, 14, 15, 16} }

\* The call made, the invocations it issued and what it returned.
Do(op, t, args, out) ==
    /\ call' = [op |-> op, host |-> t.host,
                admin_username |-> t.admin_username,
                admin_password |-> t.admin_password, args |-> args]
    /\ cmds' = out.cmds
    /\ result' = out.result

-----------------------------------------------------------------------------
(* The section parser applied to captured output.                          *)

MaxParseLines == 4

ParseLines ==
    { <<"A", ":">>, <<"B", ":">>, <<" ", "A", ":", " ">>, <<":">>,
      <<"k", "=", "1">>, <<"k", "=", "2">>, <<"j", "=", "1">>,
      <<" ", "k", " ", "=", " ", "2", " ">>,
      <<>>, <<"A">>, <<"k", "=", "1", "=", "2">> }

ParseDracCall ==
    /\ Idle
    /\ \E output \in SeqsUpTo(ParseLines, MaxParseLines) :
        /\ call' = [op |-> "__parse_drac", output |-> output]
        /\ cmds' = <<>>
        /\ result' = parse_drac(output)

NextParse == ParseDracCall \/ Return

SpecParse == Init /\ [][NextParse]_vars

(* C5 reads the input line by line, independently of the parser's loop.    *)

EqCount(l) == Cardinality({n \in 1..Len(l) : l[n] = "="})

IsKVLine(l) == EqCount(l) = 1

IsHeaderLine(l) ==
    EqCount(l) = 0 /\ strip(l) # <<>> /\ strip(l)[Len(strip(l))] = ":"

WellFormed(output) ==
    \A n \in 1..Len(output) : IsKVLine(output[n]) \/ IsHeaderLine(output[n])

EqPos(l) == CHOOSE n \in 1..Len(l) : l[n] = "="

RefKey(l) == strip(SubSeq(l, 1, EqPos(l) - 1))

RefVal(l) == strip(SubSeq(l, EqPos(l) + 1, Len(l)))

\* The header's text before its closing colon.
RefName(l) == CHOOSE t \in {SubSeq(strip(l), 1, m) : m \in 0..Len(strip(l))} :
                  t \o <<":">> = strip(l)

\* The section a key=value line at position n belongs to: the one named by
\* the nearest header above it (the empty name when there is none).
RefSectionOf(output, n) ==
    LET above == {h \in 1..(n - 1) : IsHeaderLine(output[h])}
    IN  IF above = {} THEN <<>>
        ELSE RefName(output[CHOOSE h \in above : \A g \in above : g <= h])

RefSections(output) ==
    {RefName(output[h]) : h \in {g \in 1..Len(output) :
                                     IsHeaderLine(output[g])}} \ {<<>>}

RefPairs(output, s) ==
    {n \in 1..Len(output) :
        IsKVLine(output[n]) /\ RefSectionOf(output, n) = s}

RefLast(output, s, k) ==
    LET at == {n \in RefPairs(output, s) : RefKey(output[n]) = k}
    IN  CHOOSE n \in at : \A m \in at : m <= n

\* C5: on input made of section headers and key=value lines with exactly
\* one '=', the parser returns for each declared section the pairs of that
\* section's lines, keys and values trimmed, the last occurrence of a key
\* giving its value; a repeated header does not reset its section.
C5_ParserMatchesReconstruction ==
    (call.op = "__parse_drac" /\ WellFormed(call.output)) =>
        /\ result.kind = "mapping"
        /\ DOMAIN result.val = RefSections(call.output)
        /\ \A s \in RefSections(call.output) :
              /\ DOMAIN result.val[s] =
                     {RefKey(call.output[n]) : n \in RefPairs(call.output, s)}
              /\ \A n \in RefPairs(call.output, s) :
                     result.val[s][RefKey(call.output[n])] =
                         RefVal(call.output[RefLast(call.output, s,
                                                    RefKey(call.output[n]))])

\* A section declared twice, with one key given two different values, the
\* second after the repeated header.
C5_Witness ==
    /\ call.op = "__parse_drac"
    /\ WellFormed(call.output)
    /\ \E a, b, c, d \in 1..Len(call.output) :
          /\ a < b /\ b < c /\ c < d
          /\ IsHeaderLine(call.output[a]) /\ IsHeaderLine(call.output[c])
          /\ RefName(call.output[a]) = RefName(call.output[c])
          /\ RefName(call.output[a]) # <<>>
          /\ IsKVLine(call.output[b]) /\ IsKVLine(call.output[d])
          /\ RefKey(call.output[b]) = RefKey(call.output[d])
          /\ RefVal(call.output[b]) # RefVal(call.output[d])
          /\ result.kind = "mapping"
          /\ result.val[RefName(call.output[a])][RefKey(call.output[d])] =
                 RefVal(call.output[d])

-----------------------------------------------------------------------------
(* The exposed operations, each called with a local or a remote target.    *)

SetNiccfg ==
    /\ Idle
    /\ \E t \in Targets, module \in Modules, dhcp \in BOOLEAN,
       ip \in {None, <<"10.0.0.2">>}, r \in Answers :
        Do("set_niccfg", t, [module |-> module, dhcp |-> dhcp, ip |-> ip],
           set_niccfg(ip, <<"255.255.255.0">>, <<"10.0.0.254">>, dhcp,
                      t.host, t.admin_username, t.admin_password, module, r))

SetNicvlan ==
    /\ Idle
    /\ \E t \in Targets, module \in Modules, vlan \in {None, <<"100">>},
       r \in Answers :
        Do("set_nicvlan", t, [module |-> module, vlan |-> vlan],
           set_nicvlan(vlan, t.host, t.admin_username, t.admin_password,
                       module, r))

Nameservers ==
    /\ Idle
    /\ \E t \in Targets, module \in {None, <<"server-1">>},
       ns \in SeqsUpTo({<<"ns.example.com">>}, 3),
       r \in [1..2 -> Answers] :
        Do("nameservers", t, [module |-> module, ns |-> ns],
           nameservers(ns, t.host, t.admin_username, t.admin_password,
                       module, r))

Syslog ==
    /\ Idle
    /\ \E t \in Targets, module \in {None, <<"server-1">>}, enable \in BOOLEAN,
       r \in [1..2 -> Answers] :
        Do("syslog", t, [module |-> module, enable |-> enable],
           syslog(<<"10.0.0.7">>, enable, t.host, t.admin_username,
                  t.admin_password, module, r))

EmailAlerts ==
    /\ Idle
    /\ \E t \in Targets, action \in BOOLEAN, r \in Answers :
        Do("email_alerts", t, [action |-> action],
           email_alerts(action, t.host, t.admin_username, t.admin_password,
                        r))

ListUsers ==
    /\ Idle
    /\ \E t \in Targets, module \in {None, <<"server-1">>},
       ans \in LookupAnswers :
        Do("list_users", t, [module |-> module],
           list_users(t.host, t.admin_username, t.admin_password, module,
                      ans))

DeleteUser ==
    /\ Idle
    /\ \E t \in Targets, username \in Usernames, uid \in Uids,
       ans \in LookupAnswers, r \in Answers :
        Do("delete_user", t, [username |-> username, uid |-> uid],
           delete_user(username, uid, t.host, t.admin_username,
                       t.admin_password, ans, r))

ChangePassword ==
    /\ Idle
    /\ \E t \in Targets, username \in Usernames, uid \in Uids,
       module \in {None, <<"server-1">>}, ans \in LookupAnswers,
       r \in Answers :
        Do("change_password", t,
           [username |-> username, uid |-> uid, module |-> module],
           change_password(username, <<"secret">>, uid, t.host,
                           t.admin_username, t.admin_password, module,
                           ans, r))

DeployPassword ==
    /\ Idle
    /\ \E t \in Targets, module \in Modules, r \in Answers :
        Do("deploy_password", t, [module |-> module],
           deploy_password(<<"root">>, <<"secret">>, t.host,
                           t.admin_username, t.admin_password, module, r))

DeploySnmp ==
    /\ Idle
    /\ \E t \in Targets, module \in Modules, r \in Answers :
        Do("deploy_snmp", t, [module |-> module],
           deploy_snmp(<<"public">>, t.host, t.admin_username,
                       t.admin_password, module, r))

CreateUser ==
    /\ Idle
    /\ \E t \in Targets, username \in Usernames, users \in UserMappings,
       ans \in LookupAnswers, r \in CreateAnswers :
        Do("create_user", t, [username |-> username, users |-> users],
           create_user(username, <<"secret">>, <<"login", ",", "drac">>,
                       users, t.host, t.admin_username, t.admin_password,
                       ans, r))

SetPermissions ==
    /\ Idle
    /\ \E t \in Targets, username \in Usernames, uid \in Uids,
       permissions \in { <<"login", ",", "drac">>,
                         <<"drac", ",", "login", ",", "login">> },
       ans \in LookupAnswers, r \in Answers :
        Do("set_permissions", t,
           [username |-> username, uid |-> uid,
            permissions |-> permissions],
           set_permissions(username, permissions, uid, t.host,
                           t.admin_username, t.admin_password, ans, r))

SetSnmp ==
    /\ Idle
    /\ \E t \in Targets, r \in Answers :
        Do("set_snmp", t, <<>>,
           set_snmp(<<"public">>, t.host, t.admin_username,
                    t.admin_password, r))

SetNetwork ==
    /\ Idle
    /\ \E t \in Targets, r \in Answers :
        Do("set_network", t, <<>>,
           set_network(<<"10.0.0.2">>, <<"255.255.255.0">>,
                       <<"10.0.0.254">>, t.host, t.admin_username,
                       t.admin_password, r))

ServerReboot ==
    /\ Idle
    /\ \E t \in Targets, module \in Modules, r \in Answers :
        Do("server_reboot", t, [module |-> module],
           server_reboot(t.host, t.admin_username, t.admin_password,
                         module, r))

ServerPoweroff ==
    /\ Idle
    /\ \E t \in Targets, module \in Modules, r \in Answers :
        Do("server_poweroff", t, [module |-> module],
           server_poweroff(t.host, t.admin_username, t.admin_password,
                           module, r))

ServerPoweron ==
    /\ Idle
    /\ \E t \in Targets, module \in Modules, r \in Answers :
        Do("server_poweron", t, [module |-> module],
           server_poweron(t.host, t.admin_username, t.admin_password,
                          module, r))

ServerHardreset ==
    /\ Idle
    /\ \E t \in Targets, module \in Modules, r \in Answers :
        Do("server_hardreset", t, [module |-> module],
           server_hardreset(t.host, t.admin_username, t.admin_password,
                            module, r))

ServerPxe ==
    /\ Idle
    /\ \E t \in Targets, r \in [1..2 -> Answers] :
        Do("server_pxe", t, <<>>,
           server_pxe(t.host, t.admin_username, t.admin_password, r))

SetSlotname ==
    /\ Idle
    /\ \E t \in Targets, name \in SlotNames, r \in Answers :
        Do("set_slotname", t, [slot |-> <<"2">>, name |-> name],
           set_slotname(<<"2">>, name, t.host, t.admin_username,
                        t.admin_password, r))

SetChassisName ==
    /\ Idle
    /\ \E t \in Targets, r \in Answers :
        Do("set_chassis_name", t, <<>>,
           set_chassis_name(<<"my-chassis">>, t.host, t.admin_username,
                            t.admin_password, r))

SetChassisLocation ==
    /\ Idle
    /\ \E t \in Targets, r \in Answers :
        Do("set_chassis_location", t, <<>>,
           set_chassis_location(<<"Rack 4">>, t.host, t.admin_username,
                                t.admin_password, r))

SetChassisDatacenter ==
    /\ Idle
    /\ \E t \in Targets, r \in Answers :
        Do("set_chassis_datacenter", t, <<>>,
           set_chassis_datacenter(<<"dc-east">>, t.host, t.admin_username,
                                  t.admin_password, r))

SetGeneral ==
    /\ Idle
    /\ \E t \in Targets, r \in Answers :
        Do("set_general", t, <<>>,
           set_general(<<"cfgLocation">>, <<"cfgLocationRack">>, <<"4">>,
                       t.host, t.admin_username, t.admin_password, r))

SystemInfo ==
    /\ Idle
    /\ \E t \in Targets, module \in Modules,
       r \in QueryAnswers(SysinfoOutputs) :
        Do("system_info", t, [module |-> module],
           system_info(t.host, t.admin_username, t.admin_password,
                       module, r))

NetworkInfo ==
    /\ Idle
    /\ \E t \in Targets, module \in {None, <<"switch-1">>, <<"switch-9">>},
       rinv \in QueryAnswers(VersionOutputs),
       r \in QueryAnswers(NiccfgOutputs) :
        Do("network_info", t, [module |-> module],
           network_info(t.host, t.admin_username, t.admin_password,
                        module, rinv, r))

ServerPowerstatus ==
    /\ Idle
    /\ \E t \in Targets, module \in Modules,
       r \in QueryAnswers(PowerOutputs) :
        Do("server_powerstatus", t, [module |-> module],
           server_powerstatus(t.host, t.admin_username, t.admin_password,
                              module, r))

ListSlotnames ==
    /\ Idle
    /\ \E t \in Targets, r \in QueryAnswers(SlotOutputs) :
        Do("list_slotnames", t, <<>>,
           list_slotnames(t.host, t.admin_username, t.admin_password, r))

GetSlotname ==
    /\ Idle
    /\ \E t \in Targets, slot \in {<<"1">>, <<"9">>},
       r \in QueryAnswers(SlotOutputs) :
        Do("get_slotname", t, [slot |-> slot],
           get_slotname(slot, t.host, t.admin_username, t.admin_password, r))

Inventory ==
    /\ Idle
    /\ \E t \in Targets, r \in QueryAnswers(VersionOutputs) :
        Do("inventory", t, <<>>,
           inventory(t.host, t.admin_username, t.admin_password, r))

GetChassisName ==
    /\ Idle
    /\ \E t \in Targets, r \in QueryAnswers(SysinfoOutputs) :
        Do("get_chassis_name", t, <<>>,
           get_chassis_name(t.host, t.admin_username, t.admin_password, r))

GetChassisLocation ==
    /\ Idle
    /\ \E t \in Targets, r \in QueryAnswers(SysinfoOutputs) :
        Do("get_chassis_location", t, <<>>,
           get_chassis_location(t.host, t.admin_username, t.admin_password,
                                r))

GetChassisDatacenter ==
    /\ Idle
    /\ \E t \in Targets, r \in QueryAnswers(GeneralOutputs) :
        Do("get_chassis_datacenter", t, <<>>,
           get_chassis_datacenter(t.host, t.admin_username,
                                  t.admin_password, r))

GetGeneral ==
    /\ Idle
    /\ \E t \in Targets, r \in QueryAnswers(GeneralOutputs) :
        Do("get_general", t, <<>>,
           get_general(<<"cfgLocation">>, <<"cfgLocationRack">>, t.host,
                       t.admin_username, t.admin_password, r))

Next ==
    \/ SetNiccfg \/ SetNicvlan \/ Nameservers \/ Syslog \/ EmailAlerts
    \/ ListUsers \/ DeleteUser \/ ChangePassword \/ DeployPassword
    \/ DeploySnmp \/ CreateUser \/ SetPermissions \/ SetSnmp \/ SetNetwork
    \/ ServerReboot \/ ServerPoweroff \/ ServerPoweron \/ ServerHardreset
    \/ ServerPxe \/ SetSlotname \/ SetChassisName \/ SetChassisLocation
    \/ SetChassisDatacenter \/ SetGeneral
    \/ SystemInfo \/ NetworkInfo \/ ServerPowerstatus \/ ListSlotnames
    \/ GetSlotname \/ Inventory \/ GetChassisName \/ GetChassisLocation
    \/ GetChassisDatacenter \/ GetGeneral
    \/ Return

Spec == Init /\ [][Next]_vars

-----------------------------------------------------------------------------
(* Claims on the exposed operations.                                       *)

MutatingOps ==
    {"set_niccfg", "set_nicvlan", "nameservers", "syslog", "email_alerts",
     "delete_user", "change_password", "deploy_password", "deploy_snmp",
     "create_user", "set_permissions", "set_snmp", "set_network",
     "server_reboot", "server_poweroff", "server_poweron",
     "server_hardreset", "server_pxe", "set_slotname", "set_chassis_name",
     "set_chassis_location", "set_chassis_datacenter", "set_general"}

QueryOps ==
    {"system_info", "network_info", "list_users", "server_powerstatus",
     "list_slotnames", "inventory", "get_general"}

\* C1: a mutating operation one of whose invocations exits with a nonzero
\* code returns the boolean False (and so does not raise).
C1_NonzeroExitReturnsFalse ==
    (call.op \in MutatingOps /\ \E n \in 1..Len(cmds) : cmds[n].retcode # 0)
        => result = RetBool(FALSE)

\* The invocations of the call other than the queries of a user lookup.
Body == SelectSeq(cmds, LAMBDA c : ~Contains(c.line, "getconfig"))

\* The last word of a command line (the line may end with a space).
LastSym(line) == rstrip(line)[Len(rstrip(line))]

IsDelete(c) ==
    Contains(c.line, "cfgUserAdminUserName") /\ LastSym(c.line) = "\"\""

\* Whether invocation c is the k-th step of user creation.
IsCreateStep(c, k) ==
    CASE k = 1 -> Contains(c.line, "cfgUserAdminUserName") /\ ~IsDelete(c)
      [] k = 2 -> Contains(c.line, "cfgUserAdminPrivilege")
      [] k = 3 -> Contains(c.line, "cfgUserAdminPassword")
      [] k = 4 -> Contains(c.line, "cfgUserAdminEnable")

\* The index a configuration command addresses: the word after -i.
IndexArg(c) == c.line[IndexOf(c.line, "-i") + 2]

\* C2: create_user issues create-name, set-permissions, set-password and
\* enable in this order; the first step that fails is followed by the
\* delete command for the allocated index and by nothing else, and False
\* is returned; True is returned only after four successful steps, and
\* then no delete command is issued.
C2_CreateUserRollsBack ==
    (call.op = "create_user" /\ Body # <<>>) =>
        \E k \in 1..4 :
            /\ Len(Body) >= k
            /\ \A j \in 1..k : IsCreateStep(Body[j], j)
            /\ \A j \in 1..(k - 1) : Body[j].retcode = 0
            /\ IF Body[k].retcode # 0
               THEN /\ Len(Body) = k + 1
                    /\ IsDelete(Body[k + 1])
                    /\ IndexArg(Body[k + 1]) = IndexArg(Body[1])
                    /\ result = RetBool(FALSE)
               ELSE /\ k = 4
                    /\ Len(Body) = 4
                    /\ result = RetBool(TRUE)

\* The password step failed after two successful steps, and was rolled back.
C2_Witness ==
    /\ call.op = "create_user"
    /\ Len(Body) = 4
    /\ Body[1].retcode = 0 /\ Body[2].retcode = 0 /\ Body[3].retcode # 0
    /\ IsCreateStep(Body[3], 3)
    /\ IsDelete(Body[4])
    /\ result = RetBool(FALSE)

\* The remote form: -r <host> -u <admin_username> -p <admin_password>
\* before the verb.
IsRemote(c) ==
    startswith(c.line,
               <<"racadm", " ", "-r", " ">> \o call.host \o <<" ", "-u", " ">>
                   \o call.admin_username \o <<" ", "-p", " ">>
                   \o call.admin_password \o <<" ">>)

\* C6: when a host is given, every invocation of the call is in remote form.
C6_HostGivenAllRemote ==
    (~Idle /\ call.op # "__parse_drac" /\ call.host # None) =>
        \A n \in 1..Len(cmds) : IsRemote(cmds[n])

\* C7: a query one of whose invocations exits with a nonzero code returns
\* the raw record of that invocation, with that exit code.
C7_QueryFailureReturnsRecord ==
    call.op \in QueryOps =>
        \A n \in 1..Len(cmds) :
            cmds[n].retcode # 0 =>
                /\ result.kind = "record"
                /\ result.val.retcode = cmds[n].retcode

ModuleSentinels ==
    { <<"ALL", "_", "SERVER">>, <<"ALL", "_", "SWITCH">>, <<"ALL">> }

\* The operations that hand their module to __execute_cmd, and those that
\* hand it to __execute_ret, in a single invocation.
CmdModuleOps ==
    {"set_niccfg", "set_nicvlan", "deploy_password", "deploy_snmp",
     "server_reboot", "server_poweroff", "server_poweron",
     "server_hardreset"}

RetModuleOps == {"system_info", "server_powerstatus"}

EndsWith(s, t) ==
    Len(s) >= Len(t) /\ SubSeq(s, Len(s) - Len(t) + 1, Len(s)) = t

\* C8: under both dispatchers a sentinel module gives an -a flag and no -m
\* flag, any other module gives -m <module>, and no module gives no flag.
C8_SentinelsGiveAllFlag ==
    (call.op \in CmdModuleOps \cup RetModuleOps /\ cmds # <<>>) =>
        LET line == cmds[1].line
            module == call.args.module
        IN  IF module \in ModuleSentinels
            THEN Contains(line, "-a") /\ ~Contains(line, "-m")
            ELSE IF module # None
            THEN EndsWith(line, <<" ", "-m", " ">> \o module)
                     /\ ~Contains(line, "-a")
            ELSE ~Contains(line, "-a") /\ ~Contains(line, "-m")

\* The sum of the values of a set of privilege names.
RECURSIVE SetMask(_)
SetMask(S) ==
    IF S = {} THEN 0
    ELSE LET n == CHOOSE x \in S : TRUE
         IN  privileges[n] + SetMask(S \ {n})

\* The privilege names a permissions string holds.
NamesIn(permissions) ==
    {strip(splitOn(permissions, ",")[n]) :
        n \in 1..Len(splitOn(permissions, ","))} \cap DOMAIN privileges

\* C3: the mask set_permissions sends depends only on the set of privilege
\* names in the permissions string, whatever their order and however often
\* a name is repeated: "login,drac" and "drac,login,login" both send
\* 0x00000003.
C3_MaskDependsOnNameSet ==
    (call.op = "set_permissions" /\ Body # <<>>) =>
        EndsWith(rstrip(Body[1].line),
                 <<"0x">> \o hex08(SetMask(NamesIn(call.args.permissions))))

-----------------------------------------------------------------------------
(* create_user on the mappings of existing users a caller may pass.        *)

MaxExistingIndex == 12

CreateUserAmong ==
    /\ Idle
    /\ \E t \in Targets, U \in SUBSET (1..MaxExistingIndex),
          username \in {<<"diana">>, <<"u", "3">>},
          r \in {rr \in CreateAnswers :
                    rr.perm = rr.name /\ rr.pass = rr.name
                    /\ rr.enable = rr.name /\ rr.delete = Answer(0)} :
        Do("create_user", t,
           [username |-> username, users |-> Mapping(UsersAt(U))],
           create_user(username, <<"secret">>, <<"login">>,
                       Mapping(UsersAt(U)),
                       t.host, t.admin_username, t.admin_password, <<>>, r))

NextAlloc == CreateUserAmong \/ Return

SpecAlloc == Init /\ [][NextAlloc]_vars

\* The indices the users of a mapping hold.
IndicesOf(users) == {users[name].index : name \in DOMAIN users}

\* The indices of the band 2..11 no existing user holds.
FreeBand(users) == {i \in 2..11 : i \notin IndicesOf(users)}

\* C4: when the band 2..11 has an unused index, create_user gives the new
\* user the smallest index of the band that no existing user holds, and
\* every command of the call addresses it; indices outside the band have
\* no effect.
C4_LowestFreeIndex ==
    (/\ call.op = "create_user"
     /\ ~call.args.users.none
     /\ call.args.username \notin DOMAIN call.args.users.map
     /\ FreeBand(call.args.users.map) # {}) =>
        /\ Body # <<>>
        /\ \A n \in 1..Len(Body) :
              /\ IndexArg(Body[n]) \in
                     {ToString(i) : i \in FreeBand(call.args.users.map)}
              /\ \A i \in FreeBand(call.args.users.map) :
                     IndexArg(Body[n]) = ToString(i) =>
                         \A j \in FreeBand(call.args.users.map) : i <= j

\* Existing indices {2,3,5}: the new user gets index 4.
C4_Witness ==
    /\ call.op = "create_user"
    /\ ~call.args.users.none
    /\ IndicesOf(call.args.users.map) = {2, 3, 5}
    /\ call.args.username \notin DOMAIN call.args.users.map
    /\ Body # <<>>
    /\ IsCreateStep(Body[1], 1)
    /\ IndexArg(Body[1]) = "4"

-----------------------------------------------------------------------------
(* inventory and list_slotnames on the listings the tool may print.        *)

MaxListingLines == 3

InventoryLines ==
    { <<"<", "Server", ">", " ", " ", "<", "iDRAC Version", ">">>,
      <<"<", "Switch", ">">>,
      <<"<", "CMC", ">">>,
      <<"<", "Chassis Infrastructure", ">">>,
      <<"a">>,
      <<"a", " ", " ", "b", " ", "c", " ", " ", " ", "d">>,
      <<" ", "e", " ", " ", "b", " ", " ", "c", " ", " ", "d", " ", " ",
        "f", " ", " ", "g", " ">>,
      <<>>,
      <<"Security Alert", ":", " ", "Certificate is invalid">> }

InventoryCall ==
    /\ Idle
    /\ \E t \in Targets, rc \in {0, 1},
          out \in SeqsUpTo(InventoryLines, MaxListingLines) :
        Do("inventory", t, <<>>,
           inventory(t.host, t.admin_username, t.admin_password,
                     [retcode |-> rc, stdout |-> out]))

SlotLines ==
    { <<"<", "SLOT", ">", " ", "<", "SLOT NAME", ">">>,
      <<"1">>,
      <<"1", " ", " ", "SLOT-01">>,
      <<" ", "2", " ", "SLOT-02", " ", " ", "host2", " ">>,
      <<"3", " ", "SLOT-03", " ", "host3", " ", "extra">>,
      <<>>,
      <<"Continuing execution", ".">>,
      <<"slot", " ", "names">> }

ListSlotnamesCall ==
    /\ Idle
    /\ \E t \in Targets, rc \in {0, 1},
          out \in SeqsUpTo(SlotLines, MaxListingLines) :
        Do("list_slotnames", t, <<>>,
           list_slotnames(t.host, t.admin_username, t.admin_password,
                          [retcode |-> rc, stdout |-> out]))

NextListing == InventoryCall \/ ListSlotnamesCall \/ Return

SpecListing == Init /\ [][NextListing]_vars

(* The claims read a line by positions: its fields are the maximal         *)
(* stretches of positions that are not separators.                         *)

\* The positions of t that lie in a run of two or more spaces.
RunPositions(t) ==
    {n \in 1..Len(t) :
        /\ t[n] = " "
        /\ \/ (n > 1 /\ t[n - 1] = " ")
           \/ (n < Len(t) /\ t[n + 1] = " ")}

\* The positions of t that hold a space.
BlankPositions(t) == {n \in 1..Len(t) : t[n] = " "}

\* The positions where a field of t starts, for separator positions S.
FieldStarts(t, S) ==
    {n \in 1..Len(t) : n \notin S /\ (n = 1 \/ (n - 1) \in S)}

\* The field of t that starts at position a.
FieldFrom(t, a, S) ==
    SubSeq(t, a, CHOOSE e \in a..Len(t) :
                     /\ \A j \in a..e : j \notin S
                     /\ (e = Len(t) \/ (e + 1) \in S))

\* The i-th field of t.
Field(t, i, S) ==
    FieldFrom(t,
              CHOOSE a \in FieldStarts(t, S) :
                  Cardinality({b \in FieldStarts(t, S) : b < a}) = i - 1,
              S)

\* The fields of an inventory line are parted by runs of spaces, the tokens
\* of a slot line by spaces.
InventoryFieldCount(t) == Cardinality(FieldStarts(t, RunPositions(t)))

InventoryField(t, i) == Field(t, i, RunPositions(t))

TokenCount(t) == Cardinality(FieldStarts(t, BlankPositions(t)))

\* The lines the parsers are handed: the output less its noise lines.
Listing == SelectSeq(cmds[1].stdout,
                     LAMBDA l : ~(\/ l = <<>>
                                  \/ \A n \in 1..Len(l) : l[n] = " "
                                  \/ l[1] = "Security Alert"
                                  \/ l[1] = "Continuing execution"))

TagOf(l) ==
    IF Len(l) < 3 \/ l[1] # "<" \/ l[3] # ">" THEN "none"
    ELSE CASE l[2] = "Server" -> "server"
           [] l[2] = "Switch" -> "switch"
           [] l[2] = "CMC" -> "cmc"
           [] l[2] = "Chassis Infrastructure" -> "chassis"
           [] OTHER -> "none"

BlockTypes == {"server", "switch", "cmc", "chassis"}

\* The block type line n of the listing lies in: that of the nearest tag
\* line above it.
BlockOf(n) ==
    LET above == {h \in 1..(n - 1) : TagOf(Listing[h]) # "none"}
    IN  IF above = {} THEN "none"
        ELSE TagOf(Listing[CHOOSE h \in above : \A g \in above : g <= h])

\* The data lines of block type b.
DataLines(b) ==
    {n \in 1..Len(Listing) : TagOf(Listing[n]) = "none" /\ BlockOf(n) = b}

FirstField(n) == InventoryField(strip(Listing[n]), 1)

Smaller(a, b) == IF a < b THEN a ELSE b

\* C9: every record of an inventory listing is keyed by the first field of
\* its line, which is its name attribute; its attributes are the first
\* min(n, k) declared names of its block type, for a line of n fields and
\* k declared names, each with the field at its position; fields beyond
\* the declared list are ignored.
C9_InventoryRecords ==
    (call.op = "inventory" /\ cmds[1].retcode = 0) =>
        /\ result.kind = "mapping"
        /\ \A b \in BlockTypes :
              /\ DOMAIN result.val[b] = {FirstField(n) : n \in DataLines(b)}
              /\ \A x \in DOMAIN result.val[b] :
                    /\ result.val[b][x].name = x
                    /\ Cardinality(DOMAIN result.val[b][x]) <= Len(fields[b])
                    /\ \E n \in DataLines(b) :
                          LET t == strip(Listing[n])
                              m == Smaller(InventoryFieldCount(t),
                                           Len(fields[b]))
                          IN  /\ FirstField(n) = x
                              /\ DOMAIN result.val[b][x] =
                                     {fields[b][i] : i \in 1..m}
                              /\ \A i \in 1..m :
                                     result.val[b][x][fields[b][i]] =
                                         InventoryField(t, i)

\* A line of six fields under <CMC>, which declares three names, and a line
\* of one field under it as well.
C9_Witness ==
    /\ call.op = "inventory"
    /\ cmds[1].retcode = 0
    /\ result.kind = "mapping"
    /\ \E n, m \in DataLines("cmc") :
          /\ InventoryFieldCount(strip(Listing[n])) = 6
          /\ InventoryFieldCount(strip(Listing[m])) = 1
          /\ DOMAIN result.val.cmc[FirstField(n)] =
                 {"name", "cmc_version", "updateable"}
          /\ DOMAIN result.val.cmc[FirstField(m)] = {"name"}

\* The first line of the listing that starts with '<', 0 when there is none.
HeaderLine ==
    LET tagged == {n \in 1..Len(Listing) : Listing[n][1] = "<"}
    IN  IF tagged = {} THEN 0
        ELSE CHOOSE n \in tagged : \A m \in tagged : n <= m

\* The data lines of the slot listing: those after the header line that do
\* not start with '<'.
SlotDataLines ==
    IF HeaderLine = 0 THEN {}
    ELSE {n \in (HeaderLine + 1)..Len(Listing) : Listing[n][1] # "<"}

Token(n, i) ==
    IF TokenCount(Listing[n]) >= i
    THEN Field(Listing[n], i, BlankPositions(Listing[n]))
    ELSE <<>>

\* C10: list_slotnames ignores the lines up to the first one starting with
\* '<'; every later data line gives the record kept under its first token,
\* with slot = that token, slotname = the second token or the empty
\* string, hostname = the third token or the empty string (the last line
\* of a token is the one kept); without a header line or without data
\* lines the result is the empty mapping.
C10_SlotRecords ==
    (call.op = "list_slotnames" /\ cmds[1].retcode = 0) =>
        /\ result.kind = "mapping"
        /\ DOMAIN result.val = {Token(n, 1) : n \in SlotDataLines}
        /\ SlotDataLines = {} => result.val = EmptyDict
        /\ \A n \in SlotDataLines :
              (\A m \in SlotDataLines : Token(m, 1) = Token(n, 1) => m <= n)
                  => result.val[Token(n, 1)] =
                         [slot |-> Token(n, 1), slotname |-> Token(n, 2),
                          hostname |-> Token(n, 3)]

\* A header line, then a data line of two tokens: its record has the slot
\* name and an empty host name.
C10_Witness ==
    /\ call.op = "list_slotnames"
    /\ cmds[1].retcode = 0
    /\ result.kind = "mapping"
    /\ \E n \in SlotDataLines :
          /\ TokenCount(Listing[n]) = 2
          /\ result.val[Token(n, 1)].slotname = Token(n, 2)
          /\ result.val[Token(n, 1)].slotname # <<>>
          /\ result.val[Token(n, 1)].hostname = <<>>

-----------------------------------------------------------------------------
(* get_chassis_name on the outputs getsysinfo may print.                   *)

MaxSysinfoLines == 4

SysinfoLines ==
    { <<"Chassis Information", ":">>,
      <<" ", "Chassis Information", ":", " ">>,
      <<"CMC Information", ":">>,
      <<"Chassis Name", "=", "MyChassis">>,
      <<" ", "Chassis Name", " ", "=", " ", "Other", " ">>,
      <<"Firmware Version", "=", "5.0">>,
      <<"Security Alert", ":", " ", "Certificate is invalid">>,
      <<"Continuing execution", ".">>,
      <<>>,
      <<"Chassis Name", "=", "a", "=", "b">> }

GetChassisNameCall ==
    /\ Idle
    /\ \E t \in Targets, rc \in {0, 1},
          out \in SeqsUpTo(SysinfoLines, MaxSysinfoLines) :
        Do("get_chassis_name", t, <<>>,
           get_chassis_name(t.host, t.admin_username, t.admin_password,
                            [retcode |-> rc, stdout |-> out]))

NextSysinfo == GetChassisNameCall \/ Return

SpecSysinfo == Init /\ [][NextSysinfo]_vars

\* The 'Chassis Name=<v>' lines of the listing that stand under the
\* 'Chassis Information:' header: the nearest line without '=' above them
\* is that header.
ChassisNameLines ==
    {n \in 1..Len(Listing) :
        /\ IsKVLine(Listing[n])
        /\ RefKey(Listing[n]) = <<"Chassis Name">>
        /\ \E h \in 1..(n - 1) :
              /\ strip(Listing[h]) = <<"Chassis Information", ":">>
              /\ \A g \in (h + 1)..(n - 1) : IsKVLine(Listing[g])}

\* C11: when getsysinfo succeeds and its output has a 'Chassis
\* Information:' header followed by a line 'Chassis Name=<v>',
\* get_chassis_name returns <v>, trimmed, whatever other sections (headers
\* and key=value lines with one '=') and noise lines surround it; of
\* several such lines the last gives the value.
C11_ChassisNameReturned ==
    (/\ call.op = "get_chassis_name"
     /\ cmds[1].retcode = 0
     /\ \A n \in 1..Len(Listing) : EqCount(Listing[n]) <= 1
     /\ ChassisNameLines # {}) =>
        result = RetText(RefVal(Listing[
                     CHOOSE n \in ChassisNameLines :
                         \A m \in ChassisNameLines : m <= n]))

\* The name line stands under its header between two noise lines, after
\* another section, and the padded value is returned trimmed.
C11_Witness ==
    /\ call.op = "get_chassis_name"
    /\ cmds[1].retcode = 0
    /\ Len(cmds[1].stdout) = 4
    /\ cmds[1].stdout[1] = <<"Chassis Information", ":">>
    /\ cmds[1].stdout[2] =
           <<"Security Alert", ":", " ", "Certificate is invalid">>
    /\ cmds[1].stdout[3] = <<>>
    /\ cmds[1].stdout[4] = <<" ", "Chassis Name", " ", "=", " ", "Other", " ">>
    /\ result = RetText(<<"Other">>)

-----------------------------------------------------------------------------
(* The output cleaner of __execute_ret on raw text.  Elsewhere the output  *)
(* is carried as its lines; here it is the text the tool printed.          *)

MaxTextLen == 5

TextSymbols ==
    {"\n", "\r", " ", "Security Alert", "Continuing execution", "x"}

ExecuteRetCall ==
    /\ Idle
    /\ \E rc \in {0, 1}, text \in SeqsUpTo(TextSymbols, MaxTextLen) :
        /\ call' = [op |-> "__execute_ret", retcode |-> rc, stdout |-> text]
        /\ cmds' = <<>>
        /\ result' = RetRecord([retcode |-> rc,
                                stdout |-> cleaned_stdout(rc, text)])

NextClean == ExecuteRetCall \/ Return

SpecClean == Init /\ [][NextClean]_vars

\* The positions of a text that hold a line break.
BreakPositions(t) == {n \in 1..Len(t) : t[n] \in {"\n", "\r"}}

\* The non-empty lines of t the cleaner must keep, by the position of
\* their first character: those that start with neither noise phrase and
\* hold more than spaces.
KeptStarts(t) ==
    {a \in FieldStarts(t, BreakPositions(t)) :
        LET l == FieldFrom(t, a, BreakPositions(t))
        IN  /\ l[1] \notin {"Security Alert", "Continuing execution"}
            /\ \E n \in 1..Len(l) : l[n] # " "}

\* The kept lines from position a on, each followed by "\n".
RECURSIVE KeptFrom(_, _)
KeptFrom(t, a) ==
    IF a > Len(t) THEN <<>>
    ELSE IF a \in KeptStarts(t)
    THEN FieldFrom(t, a, BreakPositions(t)) \o <<"\n">> \o KeptFrom(t, a + 1)
    ELSE KeptFrom(t, a + 1)

\* C12: on a zero exit code the cleaner removes exactly the lines that
\* start with 'Security Alert' or 'Continuing execution' or are blank,
\* keeps the other lines unchanged and in order, and cleaning its result
\* again changes nothing.
C12_CleanerExactAndIdempotent ==
    (call.op = "__execute_ret" /\ call.retcode = 0) =>
        /\ result.val.stdout \o <<"\n">> = KeptFrom(call.stdout, 1)
              \/ (result.val.stdout = <<>> /\ KeptStarts(call.stdout) = {})
        /\ cleaned_stdout(0, result.val.stdout) = result.val.stdout

\* A noise line followed by two other lines, which remain in their order.
C12_Witness ==
    /\ call.op = "__execute_ret"
    /\ call.retcode = 0
    /\ call.stdout = <<"Security Alert", "\n", "x", "\r", "x">>
    /\ result.val.stdout = <<"x", "\n", "x">>

-----------------------------------------------------------------------------
(* Claims on set_slotname and server_pxe, under Spec.                      *)

\* The first n characters of a name (all of it when it is shorter).
Prefix(name, n) == SubSeq(name, 1, IF Len(name) < n THEN Len(name) ELSE n)

\* C13: set_slotname passes a slot name of up to 15 characters to the
\* setslotname command unchanged, and the first 15 characters of a longer
\* name.
C13_SlotNameFifteen ==
    (call.op = "set_slotname" /\ cmds # <<>>) =>
        EndsWith(rstrip(cmds[1].line),
                 <<"setslotname", " ", "-i", " ">> \o call.args.slot
                     \o <<" ">> \o Prefix(call.args.name, 15))

\* C17: server_pxe issues the first-boot-device command first and the
\* boot-once command only after the first succeeded, and never a
\* power-cycle command; when both succeed it returns a reference to the
\* reboot operation, and when either fails it returns False with no
\* further command.
C17_PxeNeverReboots ==
    (call.op = "server_pxe") =>
        /\ Len(cmds) \in {1, 2}
        /\ Contains(cmds[1].line, "cfgServerFirstBootDevice")
        /\ \A n \in 1..Len(cmds) : ~Contains(cmds[n].line, "serveraction")
        /\ IF cmds[1].retcode # 0
           THEN Len(cmds) = 1 /\ result = RetBool(FALSE)
           ELSE /\ Len(cmds) = 2
                /\ Contains(cmds[2].line, "cfgServerBootOnce")
                /\ IF cmds[2].retcode # 0
                   THEN result = RetBool(FALSE)
                   ELSE result = RetFuncRef("server_reboot")

\* Both commands succeeded: two invocations, and the reboot operation is
\* returned, not called.
C17_Witness ==
    /\ call.op = "server_pxe"
    /\ Len(cmds) = 2
    /\ cmds[1].retcode = 0 /\ cmds[2].retcode = 0
    /\ result = RetFuncRef("server_reboot")

-----------------------------------------------------------------------------
(* The loop of inventory, one line per step: result holds the loop's       *)
(* variables, call the lines scanned and the number of lines done.         *)

ScanStart ==
    /\ Idle
    /\ \E out \in SeqsUpTo(InventoryLines, MaxListingLines) :
        /\ call' = [op |-> "inventory_scan", lines |-> clean(out), pos |-> 0]
        /\ cmds' = <<>>
        /\ result' = [kind |-> "scan", val |-> inventory_start]

ScanLine ==
    /\ call.op = "inventory_scan"
    /\ call.pos < Len(call.lines)
    /\ call' = [call EXCEPT !.pos = @ + 1]
    /\ result' = [result EXCEPT
                     !.val = inventory_line(@, call.lines[call.pos + 1])]
    /\ UNCHANGED cmds

ScanEnd ==
    /\ call.op = "inventory_scan"
    /\ call.pos = Len(call.lines)
    /\ call' = [op |-> "idle"]
    /\ cmds' = <<>>
    /\ result' = [kind |-> "none"]

NextScan == ScanStart \/ ScanLine \/ ScanEnd

SpecScan == Init /\ [][NextScan]_vars

\* The block types active in the loop's variables.
Active(st) ==
    {b \in BlockTypes :
        CASE b = "server"  -> st.in_server
          [] b = "switch"  -> st.in_switch
          [] b = "cmc"     -> st.in_cmc
          [] b = "chassis" -> st.in_chassis}

\* After every line at most one block type is active, and none before the
\* first tag line.
ScanStateOK ==
    call.op = "inventory_scan" =>
        /\ Cardinality(Active(result.val)) <= 1
        /\ (\A n \in 1..call.pos : TagOf(call.lines[n]) = "none") =>
              /\ Active(result.val) = {}
              /\ \A b \in BlockTypes : result.val.ret[b] = EmptyDict

\* A step over a tag line makes its block type the only active one; a step
\* over a data line changes at most one block-type mapping.
ScanStepOK ==
    (call.op = "inventory_scan" /\ call'.op = "inventory_scan") =>
        LET l == call.lines[call.pos + 1]
        IN  IF TagOf(l) # "none"
            THEN /\ Active(result'.val) = {TagOf(l)}
                 /\ result'.val.ret = result.val.ret
            ELSE /\ Active(result'.val) = Active(result.val)
                 /\ Cardinality({b \in BlockTypes :
                        result'.val.ret[b] # result.val.ret[b]}) <= 1

\* C14: while inventory scans the listing at most one block type is active
\* after every line; a tag line makes its own block type the only active
\* one; before the first tag line none is active, so data lines before any
\* tag add no record; and each data line adds a record to at most one
\* block-type mapping.
C14_OneActiveBlock == [](ScanStateOK) /\ [][ScanStepOK]_vars

\* A data line, a tag line and a data line scanned: only the second data
\* line gave a record, in the block of the tag.
C14_Witness ==
    /\ call.op = "inventory_scan"
    /\ call.pos = 3
    /\ TagOf(call.lines[1]) = "none"
    /\ TagOf(call.lines[2]) = "switch"
    /\ TagOf(call.lines[3]) = "none"
    /\ Active(result.val) = {"switch"}
    /\ result.val.ret.switch # EmptyDict
    /\ \A b \in BlockTypes \ {"switch"} : result.val.ret[b] = EmptyDict

-----------------------------------------------------------------------------
(* The section a key=value line belongs to, under SpecParse.               *)

\* A non-blank line without '='.
IsSectionLine(l) == EqCount(l) = 0 /\ strip(l) # <<>>

\* The section such a line names: its text, less a trailing colon.
SectionNamed(l) ==
    LET t == strip(l)
    IN  IF t[Len(t)] = ":" THEN SubSeq(t, 1, Len(t) - 1) ELSE t

\* C15: only a non-blank line without '=' changes the current section,
\* and the section is named by that line's text less its trailing colon:
\* every key=value line is attributed to the section named by the nearest
\* such line above it, blank lines in between notwithstanding, and a
\* header without a trailing colon names the section by its full text.
C15_OnlyHeadersChangeSection ==
    (/\ call.op = "__parse_drac"
     /\ \A n \in 1..Len(call.output) : EqCount(call.output[n]) <= 1) =>
        /\ result.kind = "mapping"
        /\ \A n \in 1..Len(call.output) :
              LET above == {h \in 1..(n - 1) : IsSectionLine(call.output[h])}
                  h == CHOOSE g \in above : \A f \in above : f <= g
              IN  (/\ IsKVLine(call.output[n])
                   /\ above # {}
                   /\ SectionNamed(call.output[h]) # <<>>) =>
                      /\ SectionNamed(call.output[h]) \in DOMAIN result.val
                      /\ RefKey(call.output[n]) \in
                             DOMAIN result.val[SectionNamed(call.output[h])]

-----------------------------------------------------------------------------
(* Claims on the user lookup and on create_user, under Spec.               *)

\* The queries of the call's user lookup, in the order issued.
Lookup == SelectSeq(cmds, LAMBDA c : Contains(c.line, "getconfig"))

\* The user names the output of query c reports.
QueryNames(c) ==
    {strip(SubSeq(c.stdout[k], 4, Len(c.stdout[k]))) :
        k \in {m \in 1..Len(c.stdout) :
                 /\ startswith(c.stdout[m], <<"cfg", "UserAdminUserName", "=">>)
                 /\ Len(c.stdout[m]) > 3}}

\* The indices at which the lookup's queries report username.
IndicesNaming(username) ==
    {i \in 1..Len(Lookup) : username \in QueryNames(Lookup[i])}

\* C16: list_users queries the indices 1 to 16 in ascending order, and the
\* index recorded for a username reported at several indices is the
\* lowest of them (first match wins).
C16_FirstMatchWins ==
    (call.op = "list_users" /\ result.kind = "mapping") =>
        /\ Len(cmds) = UserSlots
        /\ \A i \in 1..Len(cmds) : IndexArg(cmds[i]) = ToString(i)
        /\ \A u \in DOMAIN result.val :
              /\ IndicesNaming(u) # {}
              /\ \A i \in IndicesNaming(u) : result.val[u].index <= i

LookupOps == {"delete_user", "change_password", "set_permissions"}

\* C18: delete_user, change_password and set_permissions called without a
\* uid for a username the listing does not hold end in a missing-key
\* fault and issue no configuration command; delete_user and
\* change_password return False without a configuration command only for
\* an explicit falsy uid, never after a lookup.
C18_LookupMissFaults ==
    /\ (/\ call.op \in LookupOps
        /\ call.args.uid = NoUid
        /\ IndicesNaming(call.args.username) = {}) =>
            /\ result = RetRaise("KeyError")
            /\ Len(Lookup) = UserSlots
            /\ Body = <<>>
    /\ (/\ call.op \in {"delete_user", "change_password"}
        /\ result = RetBool(FALSE)
        /\ Body = <<>>) =>
            /\ call.args.uid = 0
            /\ Lookup = <<>>

\* A lookup of a name the table does not hold: sixteen queries, then the
\* fault, and no configuration command.
C18_Witness ==
    /\ call.op = "delete_user"
    /\ call.args.uid = NoUid
    /\ call.args.username = <<"diana">>
    /\ Len(Lookup) = UserSlots
    /\ <<"alice">> \in QueryNames(Lookup[2])
    /\ Body = <<>>
    /\ result = RetRaise("KeyError")

\* Whether the username is among the users create_user works with: the
\* mapping passed, or what the lookup reports.
UsernameKnown ==
    IF call.args.users.none
    THEN IndicesNaming(call.args.username) # {}
    ELSE call.args.username \in DOMAIN call.args.users.map

\* Whether every index of the band 2..11 is held: in the mapping passed,
\* or by a name the lookup reports there and at no later index.
BandFull ==
    IF call.args.users.none
    THEN \A i \in 2..11 :
             \E u \in QueryNames(Lookup[i]) :
                 \A j \in IndicesNaming(u) : j <= i
    ELSE FreeBand(call.args.users.map) = {}

====
